---------------------------- MODULE Spec2Model ----------------------------
(* Verification model of recall704/br:                                     *)
(*   - ingest/restore/tidb.go : TiDBManager.LoadSchemaInfo / SyncSchema    *)
(*                              InitSchema, the TidbTableInfo predicates,  *)
(*                              ObtainGCLifeTime / UpdateGCLifeTime        *)
(*   - storage rate limit     : WithRatelimit, withRatelimit.Create,       *)
(*                              withRateLimitWriter.Write                  *)
EXTENDS Integers, Sequences, FiniteSets, TLC

(***************************************************************************)
(* Bounds of the model (not program constants).                            *)
(***************************************************************************)
MaxTables == 2
\* largest throughput ceiling tried, in bytes per clock unit
MaxCeiling == 2
\* largest len(p) passed to Write
MaxLen == 4
\* number of Write calls on the writer
MaxWrites == 2
\* latest clock value at which a call may start
MaxTime == 2
\* a context deadline lies at most this far after the start of a call
MaxDeadline == 1
\* longest GC life time string passed to UpdateGCLifeTime
MaxStr == 3
\* number of ObtainGCLifeTime / UpdateGCLifeTime calls
MaxCalls == 3
\* most columns of a table whose column metadata is spelled out
MaxCols == 2

(***************************************************************************)
(* Program constants.                                                      *)
(***************************************************************************)
\* tidb.go:205   for i := 0; i < 100; i++
MaxAttempts == 100
\* tidb.go:216   time.Sleep(time.Second * 5)
SleepSeconds == 5
\* part_000:12  const burstLimit = 1000 * 1000 * 1000
\* (scaled: the model counts tokens in units that make the burst 3)
burstLimit == 3

VARIABLES
    \* ---- target database (environment of TiDBManager) ----
    target,     \* how the target's metadata behaves over successive loads
    schemas,    \* infoschema.AllSchemas() as seen by the latest load
    \* ---- TiDBManager.SyncSchema ----
    spc,        \* position in SyncSchema
    i,          \* loop variable i
    dbInfo,     \* local dbInfo of the loop body (last snapshot seen in loop)
    done,       \* local done of the loop body
    result,     \* value returned by SyncSchema
    loads,      \* number of LoadSchemaInfo calls made so far
    sleeps,     \* number of time.Sleep calls made so far
    slept,      \* total seconds slept
    warns       \* number of "Not all tables ready yet" warnings

VARIABLES
    \* ---- rate limited storage ----
    ratelimit,  \* the ceiling given to WithRatelimit (bytes per clock unit)
    storage,    \* what WithRatelimit returned
    now,        \* time.Now(), in units of time.Duration
    wpc,        \* position of the writer's user
    writer,     \* the writer returned by Create
    call,       \* the Write call in progress, or the last one
    ret,        \* what the last Create / Write / Close returned
    hist        \* bookkeeping over the calls made so far

VARIABLES
    \* ---- the other components ----
    gc,         \* the target's mysql.tidb row and the GC life time calls
    op,         \* the last LoadSchemaInfo / predicate evaluation
    ischema,    \* TiDBManager.InitSchema and the session it drives
    pair        \* two writers created from one rate limited storage

rateVars == <<ratelimit, storage, now, wpc, writer, call, ret, hist>>

otherVars == <<gc, op, ischema, pair>>

syncVars == <<target, schemas, spc, i, dbInfo, done, result, loads, sleeps,
              slept, warns>>

vars == <<syncVars, rateVars, otherVars>>

(***************************************************************************)
(* Target metadata: model.DBInfo / model.TableInfo as far as the code      *)
(* reads them.                                                             *)
(***************************************************************************)
StatePublic == "public"

\* model.SchemaState: one state short of public, and public
SchemaStates == {"write only", StatePublic}

TableName(id) == "t" \o ToString(id)

TableNames == {TableName(id) : id \in 1..MaxTables}

Database == "test"

Nil == [nil |-> TRUE]

\* mysql.PriKeyFlag and mysql.AutoIncrementFlag, the bits of col.Flag read
PriKeyFlag == "PriKey"

AutoIncrementFlag == "AutoIncrement"

\* model.ColumnInfo: the type class and the flag bits
ColumnInfos ==
    {[Tp |-> tp, Flag |-> fl] :
        tp \in {"int", "varchar"},
        fl \in SUBSET {PriKeyFlag, AutoIncrementFlag}}

ColumnLists == UNION {[1..n -> ColumnInfos] : n \in 0..MaxCols}

IndexLists == {<<>>, <<"idx">>}

\* model.TableInfo as the target builds it: PKIsHandle is set for a table
\* whose primary key is a single integer column
TableInfo(id, st, cols, idx) ==
    [ID |-> id, Name |-> TableName(id), State |-> st,
     Columns |-> cols, Indices |-> idx,
     PKIsHandle |->
        /\ Cardinality({k \in 1..Len(cols) : PriKeyFlag \in cols[k].Flag}) = 1
        /\ \A k \in 1..Len(cols) :
              PriKeyFlag \in cols[k].Flag => cols[k].Tp = "int"]

\* the tables of one database: every table name at most once
TableInfos ==
    {TableInfo(id, st, <<>>, <<>>) : id \in 1..MaxTables, st \in SchemaStates}

\* tables with their column and index metadata spelled out
ColumnTableInfos ==
    {TableInfo(1, st, cols, idx) :
        st \in SchemaStates, cols \in ColumnLists, idx \in IndexLists}

TableLists ==
    UNION {{s \in [1..n -> TableInfos] :
               \A a, b \in 1..n : a < b => s[a].ID < s[b].ID}
           : n \in 0..MaxTables}

OtherDB == [Name |-> "mysql", State |-> StatePublic,
            Tables |-> <<TableInfo(1, "write only", <<>>, <<>>)>>]

\* the schema lists the target can report: always the system database,
\* and possibly the requested one
SchemaLists ==
    {<<OtherDB>>} \cup
    {<<OtherDB, [Name |-> Database, State |-> st, Tables |-> tl]>> :
        st \in SchemaStates, tl \in TableLists}

AllPublic(sl) ==
    /\ Len(sl) = 2
    /\ \A k \in 1..Len(sl[2].Tables) : sl[2].Tables[k].State = StatePublic

SomeNotPublic(sl) ==
    /\ Len(sl) = 2
    /\ \E k \in 1..Len(sl[2].Tables) : sl[2].Tables[k].State # StatePublic

\* schema lists for a single load: also a requested database whose one
\* table has columns and indices
ColumnSchemaLists ==
    SchemaLists \cup
    {<<OtherDB, [Name |-> Database, State |-> StatePublic, Tables |-> <<t>>]>> :
        t \in ColumnTableInfos}

\* kinds of target: "afterK" reports some table unavailable for its first k
\* loads and every table available afterwards; "never" always reports some
\* table unavailable; "any" may report anything, including a missing
\* database and a failing session; "present" reports the requested database
\* on every load, its tables in any state.
Targets ==
    {[kind |-> "afterK", k |-> k] : k \in 0..(MaxAttempts - 1)} \cup
    {[kind |-> "never", k |-> 0], [kind |-> "any", k |-> 0]}

\* what the j-th load (j = 1, 2, ...) may see: <<session error, schemas>>
Responses(tg, j) ==
    CASE tg.kind = "afterK" ->
            {<<FALSE, sl>> : sl \in {s \in SchemaLists :
                IF j <= tg.k THEN SomeNotPublic(s) ELSE AllPublic(s)}}
      [] tg.kind = "never" ->
            {<<FALSE, sl>> : sl \in {s \in SchemaLists : SomeNotPublic(s)}}
      [] tg.kind = "present" ->
            {<<FALSE, sl>> : sl \in {s \in SchemaLists : Len(s) = 2}}
      [] OTHER -> {FALSE, TRUE} \X SchemaLists

(***************************************************************************)
(* TiDBManager.LoadSchemaInfo                                              *)
(***************************************************************************)
\* the inner loop over db.Tables: fills dbInfo.Tables[tableName]
RECURSIVE LoadTables(_, _)
LoadTables(tbls, acc) ==
    IF tbls = <<>> THEN acc
    ELSE LET tbl == Head(tbls)
             tableInfo == [ID        |-> tbl.ID,
                           Name      |-> tbl.Name,
                           Columns   |-> Len(tbl.Columns),
                           Indices   |-> Len(tbl.Indices),
                           Available |-> (tbl.State = StatePublic),
                           core      |-> tbl]
         IN  LoadTables(Tail(tbls),
                        [n \in (DOMAIN acc) \cup {tbl.Name} |->
                            IF n = tbl.Name THEN tableInfo ELSE acc[n]])

\* the outer loop over schemas: the last database with the name wins
RECURSIVE LoadSchemas(_, _, _)
LoadSchemas(sl, database, acc) ==
    IF sl = <<>> THEN acc
    ELSE LET db == Head(sl) IN
         IF db.Name # database
         THEN LoadSchemas(Tail(sl), database, acc)
         ELSE LoadSchemas(Tail(sl), database,
                [Name      |-> db.Name,
                 Tables    |-> LoadTables(db.Tables, <<>>),
                 Available |-> (db.State = StatePublic)])

\* LoadSchemaInfo that takes the last database whatever its name
LoadSchemaInfo_IgnoresName(sessErr, sl, database) ==
    IF sessErr THEN Nil ELSE LoadSchemas(sl, sl[Len(sl)].Name, Nil)

LoadSchemaInfo(sessErr, sl, database) ==
    IF sessErr THEN Nil ELSE LoadSchemas(sl, database, Nil)

(***************************************************************************)
(* The predicates of TidbTableInfo                                         *)
(***************************************************************************)
HasPriKeyFlag(flag) == PriKeyFlag \in flag

HasAutoIncrementFlag(flag) == AutoIncrementFlag \in flag

WithExplicitPrimaryKey(tbl) ==
    \E k \in 1..Len(tbl.core.Columns) :
        HasPriKeyFlag(tbl.core.Columns[k].Flag)

WithIntegerPrimaryKey(tbl) == tbl.core.PKIsHandle

\* WithAutoIncrPrimaryKey that accepts either flag
WithAutoIncrPrimaryKey_EitherFlag(tbl) ==
    \E k \in 1..Len(tbl.core.Columns) :
        \/ HasPriKeyFlag(tbl.core.Columns[k].Flag)
        \/ HasAutoIncrementFlag(tbl.core.Columns[k].Flag)

WithAutoIncrPrimaryKey(tbl) ==
    \E k \in 1..Len(tbl.core.Columns) :
        /\ HasPriKeyFlag(tbl.core.Columns[k].Flag)
        /\ HasAutoIncrementFlag(tbl.core.Columns[k].Flag)

(***************************************************************************)
(* A caller of LoadSchemaInfo and of the predicates                        *)
(***************************************************************************)
DatabaseNames == {Database, "mysql", "nodb"}

NoOp == [kind |-> "none", sessErr |-> FALSE, schemas |-> <<OtherDB>>,
         database |-> Database, out |-> Nil, table |-> "",
         explicit |-> FALSE, integer |-> FALSE, autoIncr |-> FALSE]

OpIdle == op = NoOp

\* dbInfo := timgr.LoadSchemaInfo(database) against any reply of the target
OpLoad ==
    /\ op.kind = "none"
    /\ \E sessErr \in BOOLEAN, sl \in ColumnSchemaLists, d \in DatabaseNames :
         op' = [NoOp EXCEPT !.kind = "load", !.sessErr = sessErr,
                            !.schemas = sl, !.database = d,
                            !.out = LoadSchemaInfo(sessErr, sl, d)]
    /\ UNCHANGED <<syncVars, rateVars, gc, ischema, pair>>

\* the three predicates of one table snapshot of the loaded database
OpPredicates ==
    /\ op.out # Nil
    /\ \E n \in DOMAIN op.out.Tables :
         LET tbl == op.out.Tables[n] IN
         op' = [op EXCEPT !.kind = "predicates", !.table = n,
                          !.explicit = WithExplicitPrimaryKey(tbl),
                          !.integer = WithIntegerPrimaryKey(tbl),
                          !.autoIncr = WithAutoIncrPrimaryKey(tbl)]
    /\ UNCHANGED <<syncVars, rateVars, gc, ischema, pair>>

OpNext == OpLoad \/ OpPredicates

(***************************************************************************)
(* TiDBManager.SyncSchema                                                  *)
(***************************************************************************)
\* a scan that also asks for the database's own Available flag
TablesDone_ChecksDB(info) ==
    /\ info.Available
    /\ \A n \in DOMAIN info.Tables : info.Tables[n].Available

\* the scan of dbInfo.Tables in the loop body: the value of done after it
TablesDone(info) == \A n \in DOMAIN info.Tables : info.Tables[n].Available

\* SyncSchema before it is called, for a given target
SyncStart(targets) ==
    /\ target \in targets
    /\ schemas = <<OtherDB>>
    /\ spc = "loop"
    /\ i = 0
    /\ dbInfo = Nil
    /\ done = FALSE
    /\ result = Nil
    /\ loads = 0
    /\ sleeps = 0
    /\ slept = 0
    /\ warns = 0

\* one iteration of the loop body up to time.Sleep or break:
\* a nil dbInfo panics at dbInfo.Tables (nil pointer dereference)
SyncAttempt ==
    /\ spc = "loop"
    /\ i < MaxAttempts
    /\ \E r \in Responses(target, loads + 1) :
         LET info == LoadSchemaInfo(r[1], r[2], Database) IN
         /\ schemas' = r[2]
         /\ loads' = loads + 1
         /\ dbInfo' = info
         /\ IF info = Nil
            THEN /\ spc' = "panic"
                 /\ UNCHANGED <<done, sleeps, slept, warns>>
            ELSE IF TablesDone(info)
            THEN /\ done' = TRUE
                 /\ spc' = "final"
                 /\ UNCHANGED <<sleeps, slept, warns>>
            ELSE /\ done' = FALSE
                 /\ warns' = warns + 1
                 /\ sleeps' = sleeps + 1
                 /\ spc' = "sleep"
                 /\ UNCHANGED slept
    /\ UNCHANGED <<target, i, result, rateVars, otherVars>>

\* a continue that enters the loop body without the loop condition
SyncWake_SkipsCondition ==
    /\ spc = "sleep"
    /\ slept' = slept + SleepSeconds
    /\ i' = i + 1
    /\ spc' = "loop"
    /\ UNCHANGED <<target, schemas, dbInfo, done, result, loads, sleeps, warns,
                   rateVars, otherVars>>

\* time.Sleep returns; continue: i++ and the loop condition
SyncWake ==
    /\ spc = "sleep"
    /\ slept' = slept + SleepSeconds
    /\ i' = i + 1
    /\ spc' = IF i + 1 < MaxAttempts THEN "loop" ELSE "final"
    /\ UNCHANGED <<target, schemas, dbInfo, done, result, loads, sleeps, warns,
                   rateVars, otherVars>>

\* return timgr.LoadSchemaInfo(database)
SyncReturn ==
    /\ spc = "final"
    /\ \E r \in Responses(target, loads + 1) :
         /\ schemas' = r[2]
         /\ loads' = loads + 1
         /\ result' = LoadSchemaInfo(r[1], r[2], Database)
    /\ spc' = "done"
    /\ UNCHANGED <<target, i, dbInfo, done, sleeps, slept, warns, rateVars,
                   otherVars>>

SyncNext == SyncAttempt \/ SyncWake \/ SyncReturn

(***************************************************************************)
(* golang.org/x/time/rate as used by the writer.  Time is counted in       *)
(* units of time.Duration and a limit in tokens per unit, so tokens stay   *)
(* integers; durationFromTokens truncates as the conversion to             *)
(* time.Duration does.                                                     *)
(***************************************************************************)
Min(a, b) == IF a < b THEN a ELSE b

durationFromTokens(limit, tokens) == tokens \div limit

tokensFromDuration(limit, d) == d * limit

\* rate.NewLimiter: the bucket is full at its first use
NewLimiter(r, b) ==
    [limit |-> r, burst |-> b, tokens |-> b, last |-> 0, lastEvent |-> 0]

\* Limiter.advance: the tokens the bucket holds at time t
advance(lim, t) ==
    LET last == Min(lim.last, t)
    IN  Min(lim.burst,
            lim.tokens + tokensFromDuration(lim.limit, t - last))

\* Limiter.reserveN(now, n, maxFutureReserve); bounded is FALSE for InfDuration
reserveN(lim, t, n, bounded, maxFutureReserve) ==
    LET tokens == advance(lim, t) - n
        waitDuration == IF tokens < 0
                        THEN durationFromTokens(lim.limit, -tokens) ELSE 0
        ok == n <= lim.burst /\ (~bounded \/ waitDuration <= maxFutureReserve)
    IN  [ok        |-> ok,
         tokens    |-> IF ok THEN n ELSE 0,
         timeToAct |-> IF ok THEN t + waitDuration ELSE 0,
         lim       |-> IF ok
                       THEN [lim EXCEPT !.last = t, !.tokens = tokens,
                                        !.lastEvent = t + waitDuration]
                       ELSE lim]

\* AllowN whose reservation is dropped: the bucket stays as it was
AllowN_Dropped(lim, t, n) == lim

\* Limiter.AllowN(now, n): the limiter it leaves behind
AllowN(lim, t, n) == reserveN(lim, t, n, TRUE, 0).lim

\* Reservation.CancelAt(now) for a reservation of resTokens at timeToAct
CancelAt(lim, resTokens, timeToAct, t) ==
    IF resTokens = 0 \/ timeToAct < t THEN lim
    ELSE LET restoreTokens ==
                 resTokens - tokensFromDuration(lim.limit,
                                                lim.lastEvent - timeToAct)
         IN  IF restoreTokens <= 0 THEN lim
             ELSE LET prevEvent ==
                          timeToAct + durationFromTokens(lim.limit, -resTokens)
                  IN  [lim EXCEPT
                         !.last = t,
                         !.tokens = Min(lim.burst,
                                        advance(lim, t) + restoreTokens),
                         !.lastEvent =
                             IF timeToAct = lim.lastEvent /\ prevEvent >= t
                             THEN prevEvent ELSE lim.lastEvent]

\* ctx.Done() is closed
CtxDone(c, t) == c.cancelled \/ (c.hasDeadline /\ t >= c.deadline)

\* WaitN that rejects n = burst as well
WaitN_BurstOffByOne(lim, c, n, t) ==
    IF n >= lim.burst
    THEN [out |-> "return", err |-> "burst", lim |-> lim,
          timeToAct |-> 0, tokens |-> 0]
    ELSE IF CtxDone(c, t)
    THEN [out |-> "return", err |-> "ctx", lim |-> lim,
          timeToAct |-> 0, tokens |-> 0]
    ELSE LET r == reserveN(lim, t, n, c.hasDeadline, c.deadline - t) IN
         IF ~r.ok
         THEN [out |-> "return", err |-> "deadline", lim |-> lim,
               timeToAct |-> 0, tokens |-> 0]
         ELSE [out |-> IF r.timeToAct - t = 0 THEN "return" ELSE "wait",
               err |-> "nil", lim |-> r.lim,
               timeToAct |-> r.timeToAct, tokens |-> r.tokens]

\* WaitN that takes a request above the burst as a request for the burst
WaitN_ClampsToBurst(lim, c, n, t) ==
    IF CtxDone(c, t)
    THEN [out |-> "return", err |-> "ctx", lim |-> lim,
          timeToAct |-> 0, tokens |-> 0]
    ELSE LET r == reserveN(lim, t, Min(n, lim.burst), c.hasDeadline,
                           c.deadline - t) IN
         IF ~r.ok
         THEN [out |-> "return", err |-> "deadline", lim |-> lim,
               timeToAct |-> 0, tokens |-> 0]
         ELSE [out |-> IF r.timeToAct - t = 0 THEN "return" ELSE "wait",
               err |-> "nil", lim |-> r.lim,
               timeToAct |-> r.timeToAct, tokens |-> r.tokens]

\* Limiter.WaitN(ctx, n) up to the point where it returns or starts its timer
WaitN(lim, c, n, t) ==
    IF n > lim.burst
    THEN [out |-> "return", err |-> "burst", lim |-> lim,
          timeToAct |-> 0, tokens |-> 0]
    ELSE IF CtxDone(c, t)
    THEN [out |-> "return", err |-> "ctx", lim |-> lim,
          timeToAct |-> 0, tokens |-> 0]
    ELSE LET r == reserveN(lim, t, n, c.hasDeadline, c.deadline - t) IN
         IF ~r.ok
         THEN [out |-> "return", err |-> "deadline", lim |-> lim,
               timeToAct |-> 0, tokens |-> 0]
         ELSE [out |-> IF r.timeToAct - t = 0 THEN "return" ELSE "wait",
               err |-> "nil", lim |-> r.lim,
               timeToAct |-> r.timeToAct, tokens |-> r.tokens]

(***************************************************************************)
(* WithRatelimit, withRatelimit.Create, withRateLimitWriter.Write          *)
(***************************************************************************)
\* WithRatelimit without the bypass for a zero ceiling
WithRatelimit_AlwaysWraps(rl) == "withRatelimit"

WithRatelimit(rl) == IF rl = 0 THEN "inner" ELSE "withRatelimit"

NoWriter == [kind |-> "none", limiter |-> Nil, created |-> 0]

\* Create without the pre-charge of the bucket
NewRateLimitWriter_NoPrecharge(rl, t) ==
    [kind    |-> "withRateLimitWriter",
     limiter |-> IF rl > 0 THEN NewLimiter(rl, burstLimit) ELSE Nil,
     created |-> t]

\* withRatelimit.Create after the inner Create succeeded
NewRateLimitWriter(rl, t) ==
    [kind    |-> "withRateLimitWriter",
     limiter |-> IF rl > 0
                 THEN AllowN(NewLimiter(rl, burstLimit), t, burstLimit)
                 ELSE Nil,
     created |-> t]

\* Write that waits on the limiter before it looks at the inner error
Write_ChargesFailed(limiter, c, n, err, t) ==
    IF limiter = Nil
    THEN [out |-> "return", n |-> n, err |-> err, lim |-> limiter,
          timeToAct |-> 0, tokens |-> 0]
    ELSE LET w == WaitN(limiter, c, n, t)
         IN  [out |-> IF err # "nil" THEN "return" ELSE w.out, n |-> n,
              err |-> IF err # "nil" THEN err ELSE w.err, lim |-> w.lim,
              timeToAct |-> w.timeToAct, tokens |-> w.tokens]

\* Write that waits for len(p) tokens instead of n
Write_ChargesLen(limiter, c, n, err, t) ==
    IF limiter = Nil
    THEN [out |-> "return", n |-> n, err |-> err, lim |-> limiter,
          timeToAct |-> 0, tokens |-> 0]
    ELSE IF err # "nil"
    THEN [out |-> "return", n |-> n, err |-> err, lim |-> limiter,
          timeToAct |-> 0, tokens |-> 0]
    ELSE LET w == WaitN(limiter, c, c.len, t)
         IN  [out |-> w.out, n |-> n, err |-> w.err, lim |-> w.lim,
              timeToAct |-> w.timeToAct, tokens |-> w.tokens]

\* withRateLimitWriter.Write once the inner Write returned (n, err)
Write(limiter, c, n, err, t) ==
    IF limiter = Nil
    THEN [out |-> "return", n |-> n, err |-> err, lim |-> limiter,
          timeToAct |-> 0, tokens |-> 0]
    ELSE IF err # "nil"
    THEN [out |-> "return", n |-> n, err |-> err, lim |-> limiter,
          timeToAct |-> 0, tokens |-> 0]
    ELSE LET w == WaitN(limiter, c, n, t)
         IN  [out |-> w.out, n |-> n, err |-> w.err, lim |-> w.lim,
              timeToAct |-> w.timeToAct, tokens |-> w.tokens]

\* a cancelled wait that discards the count of the inner Write
WaitEnd_DropsCount(limiter, c, n, byCancel, t) ==
    IF byCancel
    THEN [n |-> 0, err |-> "ctx",
          lim |-> CancelAt(limiter, c.tokens, c.timeToAct, t)]
    ELSE [n |-> n, err |-> "nil", lim |-> limiter]

\* the end of the timed wait in WaitN: which of the two select cases ran
WaitEnd(limiter, c, n, byCancel, t) ==
    IF byCancel
    THEN [n |-> n, err |-> "ctx",
          lim |-> CancelAt(limiter, c.tokens, c.timeToAct, t)]
    ELSE [n |-> n, err |-> "nil", lim |-> limiter]

\* the locals of a Write call: len(p), ctx, (n, err) of the inner Write, the
\* reservation made by WaitN, and whether the call got as far as the timer
NoCall == [len |-> 0, n |-> 0, innerErr |-> "nil", hasDeadline |-> FALSE,
           deadline |-> 0, cancelled |-> FALSE, start |-> 0,
           timeToAct |-> 0, tokens |-> 0, waited |-> FALSE]

\* what is left of a call once it returned
Finished(c) ==
    [NoCall EXCEPT !.n = c.n, !.innerErr = c.innerErr, !.waited = c.waited]

\* the storage before WithRatelimit's result is used, for given ceilings
RateStart(ceilings) ==
    /\ ratelimit \in ceilings
    /\ storage = WithRatelimit(ratelimit)
    /\ now = 0
    /\ wpc = "start"
    /\ writer = NoWriter
    /\ call = NoCall
    /\ ret = [op |-> "none", n |-> 0, err |-> "nil"]
    /\ hist = [writes |-> 0, sunk |-> 0, returned |-> 0, paid |-> 0]

\* the clock; it runs past MaxTime only while a timed wait needs it
Tick ==
    /\ \/ now < MaxTime
       \/ wpc = "waiting" /\ now < call.timeToAct
    /\ now' = now + 1
    /\ UNCHANGED <<ratelimit, storage, wpc, writer, call, ret, hist,
                   syncVars, otherVars>>

\* storage.Create(ctx, name) on what WithRatelimit returned
Create ==
    /\ wpc = "start"
    /\ \E failed \in BOOLEAN :
         IF failed
         THEN /\ ret' = [op |-> "Create", n |-> 0, err |-> "create"]
              /\ wpc' = "failed"
              /\ UNCHANGED writer
         ELSE /\ ret' = [op |-> "Create", n |-> 0, err |-> "nil"]
              /\ wpc' = "idle"
              /\ writer' = IF storage = "inner"
                           THEN [kind |-> "inner", limiter |-> Nil,
                                 created |-> now]
                           ELSE NewRateLimitWriter(ratelimit, now)
    /\ UNCHANGED <<ratelimit, storage, now, call, hist,
                   syncVars, otherVars>>

\* writer.Write(ctx, p) is called: control enters the inner sink's Write
WriteCall ==
    /\ wpc = "idle"
    /\ hist.writes < MaxWrites
    /\ now <= MaxTime
    /\ \E len \in 0..MaxLen, hasDl \in BOOLEAN, d \in 0..MaxDeadline,
          cancelled \in BOOLEAN :
         /\ hasDl \/ d = 0
         /\ call' = [NoCall EXCEPT !.len = len, !.hasDeadline = hasDl,
                                   !.deadline = IF hasDl THEN now + d ELSE 0,
                                   !.cancelled = cancelled, !.start = now]
    /\ wpc' = "inner"
    /\ UNCHANGED <<ratelimit, storage, now, writer, ret, hist,
                   syncVars, otherVars>>

\* bookkeeping when Write returns (n, err)
Returned(h, n, err) ==
    [h EXCEPT !.writes = @ + 1, !.returned = @ + n,
              !.paid = IF err = "nil" THEN @ + n ELSE @]

\* the inner sink's Write returns (n, err); the rest of Write follows, up to
\* its return or the start of the limiter's timed wait
InnerWriteReturns ==
    /\ wpc = "inner"
    /\ \E n \in 0..call.len, err \in {"nil", "io"} :
         \E w \in {IF writer.kind = "inner"
                   THEN [out |-> "return", n |-> n, err |-> err,
                         lim |-> writer.limiter, timeToAct |-> 0,
                         tokens |-> 0]
                   ELSE Write(writer.limiter, call, n, err, now)} :
             /\ writer' = [writer EXCEPT !.limiter = w.lim]
             /\ IF w.out = "return"
                THEN /\ wpc' = "idle"
                     /\ ret' = [op |-> "Write", n |-> w.n, err |-> w.err]
                     /\ call' = Finished([call EXCEPT !.n = n,
                                                      !.innerErr = err])
                     /\ hist' = [Returned(hist, n, w.err) EXCEPT
                                    !.sunk = @ + n]
                ELSE /\ wpc' = "waiting"
                     /\ call' = [call EXCEPT !.n = n, !.innerErr = err,
                                             !.timeToAct = w.timeToAct,
                                             !.tokens = w.tokens,
                                             !.waited = TRUE]
                     /\ hist' = [hist EXCEPT !.sunk = @ + n]
                     /\ UNCHANGED ret
    /\ UNCHANGED <<ratelimit, storage, now,
                   syncVars, otherVars>>

\* the select in WaitN: the timer fired, or ctx.Done() was closed
WaitReturns ==
    /\ wpc = "waiting"
    /\ \E byCancel \in BOOLEAN :
         /\ IF byCancel THEN CtxDone(call, now) ELSE now >= call.timeToAct
         /\ \E e \in {WaitEnd(writer.limiter, call, call.n, byCancel, now)} :
                /\ writer' = [writer EXCEPT !.limiter = e.lim]
                /\ ret' = [op |-> "Write", n |-> e.n, err |-> e.err]
                /\ hist' = Returned(hist, call.n, e.err)
    /\ call' = Finished(call)
    /\ wpc' = "idle"
    /\ UNCHANGED <<ratelimit, storage, now,
                   syncVars, otherVars>>

\* the caller cancels the context of the call in progress
CtxCancel ==
    /\ wpc \in {"inner", "waiting"}
    /\ ~call.cancelled
    /\ call' = [call EXCEPT !.cancelled = TRUE]
    /\ UNCHANGED <<ratelimit, storage, now, wpc, writer, ret, hist,
                   syncVars, otherVars>>

\* writer.Close(ctx): the embedded inner writer's Close
Close ==
    /\ wpc = "idle"
    /\ wpc' = "closed"
    /\ ret' = [op |-> "Close", n |-> 0, err |-> "nil"]
    /\ UNCHANGED <<ratelimit, storage, now, writer, call, hist,
                   syncVars, otherVars>>

RateNext ==
    \/ Tick
    \/ Create
    \/ WriteCall
    \/ InnerWriteReturns
    \/ WaitReturns
    \/ CtxCancel
    \/ Close

(***************************************************************************)
(* ObtainGCLifeTime / UpdateGCLifeTime and the mysql.tidb row they use.    *)
(* Strings are sequences of characters; a statement built by fmt.Sprintf   *)
(* is read back by the target's SQL lexer.                                 *)
(***************************************************************************)
Quote == "'"

Backslash == "\\"

Chars == {"a", Quote, Backslash}

Strs == UNION {[1..n -> Chars] : n \in 0..MaxStr}

\* the string literal the target reads from '<x>' followed by the rest of
\* the statement: '' and \c are escapes; a quote or a trailing backslash
\* that is no escape leaves a statement that does not parse
RECURSIVE Lex(_, _)
Lex(x, acc) ==
    IF x = <<>> THEN [ok |-> TRUE, value |-> acc]
    ELSE IF Head(x) \in {Quote, Backslash}
    THEN IF Len(x) >= 2 /\ (Head(x) = Backslash \/ x[2] = Quote)
         THEN Lex(Tail(Tail(x)), Append(acc, x[2]))
         ELSE [ok |-> FALSE, value |-> <<>>]
    ELSE Lex(Tail(x), Append(acc, Head(x)))

\* fmt.Sprintf("UPDATE mysql.tidb SET VARIABLE_VALUE = '%s' WHERE ...", x):
\* the characters of x stand between the quotes as they are
SprintfUpdate(gcLifeTime) == [kind |-> "update", literal |-> gcLifeTime]

\* the target after one more statement that ended with err; the target
\* counts the statements it was sent and keeps the outcome of the last one
Served(db, err) == [db EXCEPT !.stmts = @ + 1, !.lastErr = err]

\* db.Exec(stmt) on the target: fail is a failure of the connection
Exec(db, stmt, fail) ==
    LET lit == Lex(stmt.literal, <<>>) IN
    IF fail THEN [db |-> Served(db, "conn"), err |-> "conn"]
    ELSE IF ~lit.ok
    THEN [db |-> Served(db, "syntax"), err |-> "syntax"]
    ELSE [db |-> [Served(db, "nil") EXCEPT
                    !.value = IF db.present THEN lit.value ELSE @],
          err |-> "nil"]

\* db.QueryRow(stmt).Scan(&gcLifeTime) on the target: sql.ErrNoRows when
\* the row is missing
QueryRowScan(db, fail) ==
    LET err == IF fail THEN "conn"
               ELSE IF ~db.present THEN "norows" ELSE "nil"
    IN  [db    |-> Served(db, err),
         value |-> IF err = "nil" THEN db.value ELSE <<>>,
         err   |-> err]

\* UpdateGCLifeTime that tries once more after a failure
UpdateGCLifeTime_Retries(db, gcLifeTime, fail) ==
    LET r == Exec(db, SprintfUpdate(gcLifeTime), fail)
    IN  IF r.err = "nil" THEN r
        ELSE Exec(r.db, SprintfUpdate(gcLifeTime), FALSE)

UpdateGCLifeTime(db, gcLifeTime, fail) ==
    Exec(db, SprintfUpdate(gcLifeTime), fail)

ObtainGCLifeTime(db, fail) == QueryRowScan(db, fail)

NoGCCall == [name |-> "none", arg |-> <<>>, value |-> <<>>, err |-> "nil"]

GCIdle ==
    gc = [db |-> [present |-> TRUE, value |-> <<"a">>, stmts |-> 0,
                  lastErr |-> "nil"],
          calls |-> 0, update |-> NoGCCall, last |-> NoGCCall]

\* the row of tikv_gc_life_time may be missing; no call was made yet
GCStart ==
    \E present \in BOOLEAN :
        gc = [db |-> [present |-> present, value |-> <<"a">>, stmts |-> 0,
                      lastErr |-> "nil"],
              calls |-> 0, update |-> NoGCCall, last |-> NoGCCall]

GCUpdate ==
    /\ gc.calls < MaxCalls
    /\ \E x \in Strs, fail \in BOOLEAN :
         \E r \in {UpdateGCLifeTime(gc.db, x, fail)} :
            LET c == [name |-> "update", arg |-> x, value |-> <<>>,
                      err |-> r.err]
            IN  gc' = [db |-> r.db, calls |-> gc.calls + 1,
                       update |-> c, last |-> c]
    /\ UNCHANGED <<syncVars, rateVars, op, ischema, pair>>

GCObtain ==
    /\ gc.calls < MaxCalls
    /\ \E fail \in BOOLEAN :
         \E r \in {ObtainGCLifeTime(gc.db, fail)} :
            gc' = [gc EXCEPT !.db = r.db, !.calls = @ + 1,
                             !.last = [name |-> "obtain", arg |-> <<>>,
                                       value |-> r.value, err |-> r.err]]
    /\ UNCHANGED <<syncVars, rateVars, op, ischema, pair>>

GCNext == GCUpdate \/ GCObtain

(***************************************************************************)
(* TiDBManager.InitSchema and the session it drives.  A CREATE TABLE       *)
(* statement is kept as what toCreateTableIfNotExists looks at: whether    *)
(* it has the IF NOT EXISTS clause, and whether its text before the        *)
(* clause is in upper case.                                                *)
(***************************************************************************)
CreateTableStmts ==
    {[kind |-> "create table", table |-> n, ifNotExists |-> e,
      upper |-> FALSE] : n \in TableNames, e \in BOOLEAN}

\* tablesSchema map[string]string: table name -> its CREATE TABLE statement
TablesSchemas ==
    UNION {{f \in [ns -> CreateTableStmts] : \A n \in ns : f[n].table = n} :
           ns \in SUBSET TableNames}

\* strings.ToUpper, and the clause spliced in after the upper-cased prefix
toCreateTableIfNotExists(createTable) ==
    IF createTable.ifNotExists THEN createTable
    ELSE [createTable EXCEPT !.ifNotExists = TRUE, !.upper = TRUE]

\* se.Execute(ctx, stmt): the session's log of statements and outcomes
Execute(log, stmt, ok) == Append(log, [stmt |-> stmt, ok |-> ok])

\* the error of the k-th statement the session was sent
ErrOf(k) == [stmt |-> k]

NoErr == [stmt |-> 0]

SessionErr == [stmt |-> -1]

InitSchemaStart ==
    \E ts \in TablesSchemas :
        ischema = [pc |-> "session", tablesSchema |-> ts, todo |-> DOMAIN ts,
                   log |-> <<>>, err |-> NoErr, ret |-> NoErr]

InitSchemaIdle ==
    ischema = [pc |-> "session", tablesSchema |-> <<>>, todo |-> {},
               log |-> <<>>, err |-> NoErr, ret |-> NoErr]

\* se, err := session.CreateSession(timgr.store)
ISCreateSession ==
    /\ ischema.pc = "session"
    /\ \E ok \in BOOLEAN :
         ischema' = IF ok THEN [ischema EXCEPT !.pc = "create database"]
                    ELSE [ischema EXCEPT !.pc = "done", !.err = SessionErr,
                                         !.ret = SessionErr]
    /\ UNCHANGED <<syncVars, rateVars, gc, op, pair>>

\* _, err = se.Execute(ctx, "CREATE DATABASE IF NOT EXISTS ...")
ISCreateDatabase ==
    /\ ischema.pc = "create database"
    /\ \E ok \in BOOLEAN :
         LET log == Execute(ischema.log, [kind |-> "create database"], ok)
         IN  ischema' = [ischema EXCEPT
                            !.pc = "use", !.log = log,
                            !.err = IF ok THEN NoErr ELSE ErrOf(Len(log))]
    /\ UNCHANGED <<syncVars, rateVars, gc, op, pair>>

\* _, err = se.Execute(ctx, "USE ..."); if err != nil { return }
ISUse ==
    /\ ischema.pc = "use"
    /\ \E ok \in BOOLEAN :
         LET log == Execute(ischema.log, [kind |-> "use"], ok)
             err == IF ok THEN NoErr ELSE ErrOf(Len(log))
         IN  ischema' = [ischema EXCEPT
                            !.pc = IF err # NoErr THEN "done" ELSE "tables",
                            !.log = log, !.err = err, !.ret = err]
    /\ UNCHANGED <<syncVars, rateVars, gc, op, pair>>

\* one iteration of the range over tablesSchema, in the map's order:
\* safeCreateTable(ctx, se, sqlCreateTable)
ISCreateTable ==
    /\ ischema.pc = "tables"
    /\ \E n \in ischema.todo, ok \in BOOLEAN :
         LET log == Execute(ischema.log,
                        toCreateTableIfNotExists(ischema.tablesSchema[n]), ok)
             err == IF ok THEN NoErr ELSE ErrOf(Len(log))
         IN  ischema' = [ischema EXCEPT
                            !.pc = IF err # NoErr THEN "done" ELSE "tables",
                            !.todo = @ \ {n},
                            !.log = log, !.err = err, !.ret = err]
    /\ UNCHANGED <<syncVars, rateVars, gc, op, pair>>

\* return nil
ISReturnNil ==
    /\ ischema.pc = "tables"
    /\ ischema.todo = {}
    /\ ischema' = [ischema EXCEPT !.pc = "done", !.ret = NoErr]
    /\ UNCHANGED <<syncVars, rateVars, gc, op, pair>>

InitSchemaNext ==
    \/ ISCreateSession
    \/ ISCreateDatabase
    \/ ISUse
    \/ ISCreateTable
    \/ ISReturnNil

(***************************************************************************)
(* Two writers created from one rate limited storage, each written by its  *)
(* own goroutine.                                                          *)
(***************************************************************************)
Writers == 1..2

NoPairWriter == [pc |-> "none", writer |-> NoWriter, writes |-> 0,
                 n |-> 0, timeToAct |-> 0]

PairIdle == pair = [w \in Writers |-> NoPairWriter]

\* Write whose limiter is one bucket shared by every writer created
Charged_AllWriters(p, w, lim) ==
    [v \in DOMAIN p |->
        IF p[v].pc # "none" THEN [p[v] EXCEPT !.writer.limiter = lim]
        ELSE p[v]]

\* w.limiter after the Write of writer w: the limiter is a field of w
Charged(p, w, lim) == [p EXCEPT ![w].writer.limiter = lim]

PairTick ==
    /\ \/ now < MaxTime
       \/ \E w \in Writers : pair[w].pc = "waiting" /\ now < pair[w].timeToAct
    /\ now' = now + 1
    /\ UNCHANGED <<ratelimit, storage, wpc, writer, call, ret, hist,
                   syncVars, gc, op, ischema, pair>>

\* storage.Create(ctx, name) for writer w
PairCreate(w) ==
    /\ pair[w].pc = "none"
    /\ pair' = [pair EXCEPT ![w].pc = "idle",
                            ![w].writer = NewRateLimitWriter(ratelimit, now)]
    /\ UNCHANGED <<syncVars, rateVars, gc, op, ischema>>

\* writer w's Write: the inner Write returns (n, err), then the limiter;
\* n and the time to act are locals of the call, kept while it waits
PairWrite(w) ==
    /\ pair[w].pc = "idle"
    /\ pair[w].writes < MaxWrites
    /\ now <= MaxTime
    /\ \E n \in 0..MaxLen, err \in {"nil", "io"} :
         \E r \in {Write(pair[w].writer.limiter, NoCall, n, err, now)} :
            pair' = [Charged(pair, w, r.lim) EXCEPT
                        ![w].pc = IF r.out = "wait" THEN "waiting" ELSE "idle",
                        ![w].writes = @ + 1,
                        ![w].n = IF r.out = "wait" THEN n ELSE 0,
                        ![w].timeToAct = r.timeToAct]
    /\ UNCHANGED <<syncVars, rateVars, gc, op, ischema>>

\* the timer of writer w's WaitN fired
PairWaitReturns(w) ==
    /\ pair[w].pc = "waiting"
    /\ now >= pair[w].timeToAct
    /\ \E e \in {WaitEnd(pair[w].writer.limiter, NoCall, pair[w].n, FALSE,
                         now)} :
         pair' = [Charged(pair, w, e.lim) EXCEPT ![w].pc = "idle",
                                                 ![w].n = 0,
                                                 ![w].timeToAct = 0]
    /\ UNCHANGED <<syncVars, rateVars, gc, op, ischema>>

PairNext ==
    \/ PairTick
    \/ \E w \in Writers : PairCreate(w)
    \/ \E w \in Writers : PairWrite(w)
    \/ \E w \in Writers : PairWaitReturns(w)

(***************************************************************************)
(* Specifications: SyncSchema against a target, and a writer of the rate   *)
(* limited storage; each leaves the other component before its start.      *)
(***************************************************************************)
\* the components a specification does not run stay before their start
OthersIdle == GCIdle /\ OpIdle /\ InitSchemaIdle /\ PairIdle

SyncInit == SyncStart(Targets) /\ RateStart({0}) /\ OthersIdle

SyncSpec == SyncInit /\ [][SyncNext]_vars

RateInit ==
    /\ RateStart(0..MaxCeiling)
    /\ SyncStart({[kind |-> "any", k |-> 0]})
    /\ OthersIdle

RateSpec == RateInit /\ [][RateNext]_vars

\* the clock advances, the inner sink's Write returns, and the goroutine in
\* WaitN's select runs once its timer fired or its context is done
RateLiveInit ==
    /\ RateStart(1..MaxCeiling)
    /\ SyncStart({[kind |-> "any", k |-> 0]})
    /\ OthersIdle

RateLiveSpec ==
    /\ RateLiveInit
    /\ [][RateNext]_vars
    /\ WF_vars(Tick)
    /\ WF_vars(InnerWriteReturns)
    /\ WF_vars(WaitReturns)

\* every load of SyncSchema finds the requested database
SyncLiveInit ==
    SyncStart({[kind |-> "present", k |-> 0]}) /\ RateStart({0}) /\ OthersIdle

\* the goroutine that called SyncSchema keeps running: each load returns
\* and each time.Sleep ends
SyncLiveSpec ==
    /\ SyncLiveInit
    /\ [][SyncNext]_vars
    /\ WF_vars(SyncAttempt)
    /\ WF_vars(SyncWake)
    /\ WF_vars(SyncReturn)

ParkedInit == SyncStart({[kind |-> "any", k |-> 0]}) /\ RateStart({0})

GCInit ==
    ParkedInit /\ GCStart /\ OpIdle /\ InitSchemaIdle /\ PairIdle

GCSpec == GCInit /\ [][GCNext]_vars

SnapshotInit == ParkedInit /\ OthersIdle

SnapshotSpec == SnapshotInit /\ [][OpNext]_vars

InitSchemaInit ==
    ParkedInit /\ GCIdle /\ OpIdle /\ InitSchemaStart /\ PairIdle

InitSchemaSpec == InitSchemaInit /\ [][InitSchemaNext]_vars

TwoWritersInit ==
    /\ SyncStart({[kind |-> "any", k |-> 0]})
    /\ RateStart(1..MaxCeiling)
    /\ GCIdle /\ OpIdle /\ InitSchemaIdle /\ PairIdle

TwoWritersSpec == TwoWritersInit /\ [][PairNext]_vars

(***************************************************************************)
(* Claims about SyncSchema                                                 *)
(***************************************************************************)
\* C1: whenever SyncSchema returns after a poll that found every table
\* available (done = TRUE at the break), the snapshot it returns is that
\* same snapshot, so every table in it is available.
C1_ReturnsTheReadySnapshot ==
    (spc = "done" /\ done) =>
        /\ result # Nil
        /\ TablesDone(result)

\* C2: for a target that reports some table unavailable for its first k
\* loads and all tables available afterwards, SyncSchema returns a
\* fully-available snapshot after exactly k+1 calls of LoadSchemaInfo.
C2_ExactlyKPlusOneLoads ==
    (target.kind = "afterK" /\ spc = "done") =>
        /\ loads = target.k + 1
        /\ result # Nil
        /\ TablesDone(result)

\* C3: for a target in which some table never becomes available,
\* SyncSchema makes exactly MaxAttempts loads, sleeps only between
\* consecutive attempts and returns the last snapshot seen in the loop.
C3_ExhaustedBudget ==
    (target.kind = "never" /\ spc = "done") =>
        /\ loads = MaxAttempts
        /\ sleeps = MaxAttempts - 1
        /\ slept = SleepSeconds * (MaxAttempts - 1)
        /\ result = dbInfo
        /\ result # Nil
        /\ ~TablesDone(result)

\* C4: a poll on which the requested database does not exist (nil from
\* LoadSchemaInfo) never crashes SyncSchema.
C4_MissingDatabaseTolerated == spc # "panic"

(***************************************************************************)
(* Claims about the rate limited writer                                    *)
(***************************************************************************)
Limited == writer.kind = "withRateLimitWriter" /\ writer.limiter # Nil

Elapsed == now - writer.created

\* C5 as stated: at every moment the bytes the inner sink accepted through
\* Write calls that have returned, whatever they returned, stay below
\* ceiling x (time since Create), up to one clock unit of tokens.
C5_ReturnedBytesWithinCeiling ==
    Limited => hist.returned < ratelimit * (Elapsed + 1)

\* C5 amended: at every moment the bytes the inner sink accepted through
\* Write calls that have returned a nil error stay below
\* ceiling x (time since Create), up to one clock unit of tokens; there is
\* no usable initial burst.
C5_PaidBytesWithinCeiling ==
    Limited => hist.paid < ratelimit * (Elapsed + 1)

C5_Witness ==
    /\ Limited
    /\ wpc = "idle"
    /\ hist.writes = 2
    /\ hist.paid = burstLimit
    /\ hist.returned > hist.paid
    /\ ret.err = "nil"
    /\ ratelimit * Elapsed = hist.paid

\* Write returns in this step
WriteReturns == wpc \in {"inner", "waiting"} /\ wpc' = "idle"

\* the Write in progress is the writer's first and was issued at the
\* instant of Create
FirstWriteAtCreate ==
    /\ Limited
    /\ hist.writes = 0
    /\ call.start = writer.created

\* C6 as stated: the bucket is empty right after Create, and a successful
\* first Write of B bytes, 0 < B <= burst, issued at once never returns
\* with zero wait.
C6_FirstWriteNeverZeroWait ==
    [][/\ (wpc = "start" /\ wpc' = "idle" /\ ratelimit > 0) =>
            writer'.limiter.tokens = 0 /\ writer'.limiter.last = now
       /\ (FirstWriteAtCreate /\ WriteReturns /\ ret'.err = "nil"
             /\ ret'.n > 0 /\ ret'.n <= burstLimit) =>
            now > call.start
      ]_vars

\* C6 amended: the bucket is empty right after Create (Create consumes the
\* full burst: the stored tokens are 0 as of the creation time), and a
\* successful first Write of B bytes issued at once does not return before
\* B/C, truncated to the clock unit, has elapsed.
C6_FirstWriteWaits ==
    [][/\ (wpc = "start" /\ wpc' = "idle" /\ ratelimit > 0) =>
            writer'.limiter.tokens = 0 /\ writer'.limiter.last = now
       /\ (FirstWriteAtCreate /\ WriteReturns /\ ret'.err = "nil"
             /\ ret'.n > 0 /\ ret'.n <= burstLimit) =>
            now - call.start >= ret'.n \div ratelimit
      ]_vars

C6_Witness ==
    /\ Limited
    /\ wpc = "idle"
    /\ hist.writes = 1
    /\ hist.paid = burstLimit
    /\ call.waited
    /\ ret = [op |-> "Write", n |-> burstLimit, err |-> "nil"]
    /\ Elapsed = burstLimit \div ratelimit
    /\ Elapsed > 0

\* C7: when the context's signal fires while Write is in the limiter's
\* wait and the inner sink accepted S bytes, Write returns (S, the
\* context's error); a return with the context's error always carries S.
C7_CancelKeepsCount ==
    [][(wpc = "waiting" /\ wpc' = "idle") =>
          /\ ret'.op = "Write"
          /\ ret'.err \in {"nil", "ctx"}
          /\ ret'.n = hist.sunk - hist.returned
          /\ ret'.n = call.n
          /\ (CtxDone(call, now) /\ now < call.timeToAct) => ret'.err = "ctx"
      ]_vars

C7_Witness ==
    /\ Limited
    /\ wpc = "idle"
    /\ call.waited
    /\ ret = [op |-> "Write", n |-> call.n, err |-> "ctx"]
    /\ ret.n > 0
    /\ hist.sunk = ret.n

\* C8: when the inner sink's Write returns an error, Write returns that
\* error and the inner count at once, without a wait, and leaves the
\* token bucket as it was.
C8_InnerErrorNotCharged ==
    [][(wpc = "inner" /\ wpc' # "inner" /\ call'.innerErr # "nil") =>
          /\ wpc' = "idle"
          /\ ret' = [op |-> "Write", n |-> hist'.sunk - hist.sunk,
                     err |-> call'.innerErr]
          /\ writer' = writer
          /\ ~call'.waited
      ]_vars

C8_Witness ==
    /\ Limited
    /\ wpc = "idle"
    /\ ret.op = "Write"
    /\ ret.err = "io"
    /\ ret.n > 0
    /\ ~call.waited
    /\ hist.writes = 2
    /\ hist.paid > 0
    /\ advance(writer.limiter, now) < 0

\* C9: with ceiling 0 WithRatelimit returns the inner storage itself, so
\* the writer is the inner writer, every Write returns what the inner sink
\* returned and no Write waits on a limiter.
C9_ZeroCeilingIsBypass ==
    ratelimit = 0 =>
        /\ storage = "inner"
        /\ writer.kind \in {"none", "inner"}
        /\ writer.limiter = Nil
        /\ wpc # "waiting"
        /\ ~call.waited
        /\ (ret.op = "Write" /\ wpc = "idle") =>
               ret = [op |-> "Write", n |-> call.n, err |-> call.innerErr]
        /\ wpc # "inner" => hist.sunk = hist.returned

C9_Witness ==
    /\ ratelimit = 0
    /\ wpc = "closed"
    /\ hist.writes = 2
    /\ hist.sunk = 2 * MaxLen
    /\ now = 0

\* C10: on a writer with a ceiling every Write call returns, given that
\* time advances and the inner sink's Write returns; without a
\* cancellation or deadline, a Write whose inner sink accepted n <= burst
\* bytes returns (n, nil).
C10_WriteReturns ==
    /\ (wpc \in {"inner", "waiting"}) ~> (wpc = "idle")
    /\ [][(/\ Limited
           /\ WriteReturns
           /\ call'.innerErr = "nil"
           /\ ~call.cancelled
           /\ ~call.hasDeadline
           /\ call'.n <= burstLimit)
          => ret' = [op |-> "Write", n |-> hist'.sunk - hist.returned,
                     err |-> "nil"]
      ]_vars

C10_Witness ==
    /\ Limited
    /\ wpc = "idle"
    /\ hist.writes = 2
    /\ hist.paid = 2 * burstLimit
    /\ call.waited
    /\ ret = [op |-> "Write", n |-> burstLimit, err |-> "nil"]

(***************************************************************************)
(* Claims about ObtainGCLifeTime / UpdateGCLifeTime                        *)
(***************************************************************************)
\* C11: whenever ObtainGCLifeTime returns a value without error and the
\* most recent UpdateGCLifeTime(X) returned no error, the value returned is
\* exactly X, character for character.
C11_RoundTrip ==
    (/\ gc.last.name = "obtain"
     /\ gc.last.err = "nil"
     /\ gc.update.name = "update"
     /\ gc.update.err = "nil")
    => gc.last.value = gc.update.arg

\* C12: each call of ObtainGCLifeTime or UpdateGCLifeTime sends the target
\* exactly one statement, returns the outcome of that statement as its
\* error, and an UpdateGCLifeTime that returns an error leaves the stored
\* value as it was.
C12_OneStatementNoRetry ==
    [][gc' # gc =>
          /\ gc'.calls = gc.calls + 1
          /\ gc'.db.stmts = gc.db.stmts + 1
          /\ gc'.last.err = gc'.db.lastErr
          /\ (gc'.last.name = "update" /\ gc'.last.err # "nil") =>
                 /\ gc'.db.value = gc.db.value
                 /\ gc'.db.present = gc.db.present
      ]_vars

C12_Witness ==
    /\ gc.calls = 3
    /\ gc.db.stmts = 3
    /\ gc.update.err = "conn"
    /\ gc.last.name = "obtain"
    /\ gc.last.err = "nil"
    /\ gc.last.value = <<"a", "a">>

(***************************************************************************)
(* Claims about LoadSchemaInfo and the predicates                          *)
(***************************************************************************)
HasDatabase(sl, d) == \E k \in 1..Len(sl) : sl[k].Name = d

TheDatabase(sl, d) == sl[CHOOSE k \in 1..Len(sl) : sl[k].Name = d]

\* out is a snapshot of db: its name, one table snapshot per table, each
\* Available iff the table's state is public
SnapshotOf(out, db) ==
    /\ out.Name = db.Name
    /\ DOMAIN out.Tables = {db.Tables[k].Name : k \in 1..Len(db.Tables)}
    /\ \A k \in 1..Len(db.Tables) :
          LET t == out.Tables[db.Tables[k].Name] IN
          /\ t.Name = db.Tables[k].Name
          /\ t.Available <=> (db.Tables[k].State = StatePublic)

\* C13 as stated: LoadSchemaInfo(name) returns nil exactly when the target
\* has no database of that name, and otherwise a snapshot of that database
\* with one table snapshot per table, Available iff the state is public.
C13_NilExactlyWhenNoDatabase ==
    op.kind = "load" =>
        /\ op.out = Nil <=> ~HasDatabase(op.schemas, op.database)
        /\ op.out # Nil =>
               SnapshotOf(op.out, TheDatabase(op.schemas, op.database))

\* C13: LoadSchemaInfo(name) returns nil exactly when the info schema
\* could not be obtained or the target has no database of that name, and
\* otherwise a snapshot of that database with one table snapshot per
\* table, Available iff the state is public.
C13_NilWhenNoDatabaseOrNoInfoSchema ==
    op.kind = "load" =>
        /\ op.out = Nil <=>
               (op.sessErr \/ ~HasDatabase(op.schemas, op.database))
        /\ op.out # Nil =>
               SnapshotOf(op.out, TheDatabase(op.schemas, op.database))

C13_Witness ==
    /\ op.kind = "load"
    /\ op.sessErr
    /\ op.database = Database
    /\ HasDatabase(op.schemas, op.database)
    /\ Len(op.schemas[2].Tables) = MaxTables
    /\ op.out = Nil

\* the columns of the table behind the snapshot the predicates were asked of
OpColumns == op.out.Tables[op.table].core.Columns

PriKeyColumns == {k \in 1..Len(OpColumns) : PriKeyFlag \in OpColumns[k].Flag}

C15_InnerFirstThenCharged ==
    [][Limited =>
          /\ (wpc = "idle" /\ wpc' = "inner") =>
                 /\ writer' = writer
                 /\ hist'.sunk = hist.sunk
          /\ hist'.sunk # hist.sunk => (wpc = "inner" /\ wpc' # "inner")
          /\ (wpc = "inner" /\ wpc' = "inner") => writer' = writer
          /\ (wpc = "inner" /\ writer'.limiter # writer.limiter) =>
                 advance(writer.limiter, now) - writer'.limiter.tokens
                     = hist'.sunk - hist.sunk
          /\ (wpc = "inner" /\ wpc' = "waiting") =>
                 call'.tokens = hist'.sunk - hist.sunk
      ]_vars

C15_Witness ==
    /\ Limited
    /\ wpc = "waiting"
    /\ call.len = MaxLen
    /\ call.n = 2
    /\ call.tokens = 2
    /\ hist.sunk = 2
    /\ hist.writes = 0

\* C17: a writer just created holds an empty bucket of its own, and a step
\* of one writer (its Create, its Write, the end of its wait) leaves the
\* other writer's limiter, position and time to act as they were.
C17_WritersIndependent ==
    [][\A w \in Writers :
          /\ (pair[w].pc = "none" /\ pair'[w].pc # "none") =>
                 /\ pair'[w].writer.limiter.tokens = 0
                 /\ pair'[w].writer.limiter.last = now
                 /\ pair'[w].writer.created = now
          /\ pair'[w] # pair[w] =>
                 \A v \in Writers \ {w} : pair'[v] = pair[v]
      ]_vars

C17_Witness ==
    /\ pair[1].pc = "waiting"
    /\ pair[2].pc = "waiting"
    /\ pair[1].timeToAct # pair[2].timeToAct
    /\ pair[1].writer.limiter.tokens < pair[2].writer.limiter.tokens
    /\ pair[1].writer.created < pair[2].writer.created

\* C18: when the inner sink accepted n > burstLimit bytes without error,
\* Write returns (n, error of the limiter) in that same step: the limiter
\* is left as it was and the n bytes are in the sink.
C18_OverBurstNotCharged ==
    [][(/\ Limited
        /\ wpc = "inner"
        /\ wpc' # "inner"
        /\ call'.innerErr = "nil"
        /\ call'.n > burstLimit)
       => /\ wpc' = "idle"
          /\ ret' = [op |-> "Write", n |-> call'.n, err |-> "burst"]
          /\ writer' = writer
          /\ now' = now
          /\ ~call'.waited
          /\ hist'.sunk = hist.sunk + call'.n
      ]_vars

C18_Witness ==
    /\ Limited
    /\ wpc = "idle"
    /\ ret = [op |-> "Write", n |-> MaxLen, err |-> "burst"]
    /\ hist.writes = 1
    /\ hist.sunk = MaxLen
    /\ advance(writer.limiter, now) = 0

(***************************************************************************)
(* More claims about SyncSchema and InitSchema                             *)
(***************************************************************************)
\* C16: against a target that reports the requested database on every
\* load, SyncSchema returns; until then it sleeps at most MaxAttempts
\* times, SleepSeconds each, with one warning per poll that was not ready,
\* never fails, and what it returns is a snapshot.
C16_SyncSchemaTerminates ==
    /\ <>(spc = "done")
    /\ [](/\ sleeps <= MaxAttempts
          /\ slept <= SleepSeconds * sleeps
          /\ warns = sleeps
          /\ i <= MaxAttempts
          /\ loads <= MaxAttempts + 1
          /\ spc # "panic"
          /\ spc = "done" => result # Nil)

C16_Witness ==
    /\ spc = "done"
    /\ sleeps = MaxAttempts
    /\ slept = SleepSeconds * MaxAttempts
    /\ warns = MaxAttempts
    /\ result # Nil
    /\ ~TablesDone(result)

\* the statements of the session's log that failed
FailedStmts == {k \in 1..Len(ischema.log) : ~ischema.log[k].ok}

\* C19: InitSchema returns nil only if every statement it executed
\* succeeded; a statement that fails is the last one executed, and its
\* error is what InitSchema returns.
C19_StopsAtFirstFailure ==
    /\ (ischema.pc = "done" /\ ischema.ret = NoErr) => FailedStmts = {}
    /\ \A k \in FailedStmts :
          /\ k = Len(ischema.log)
          /\ ischema.pc = "done" => ischema.ret = ErrOf(k)

\* C20: a poll whose snapshot exists and in which every table of the
\* requested database is public ends the loop at once, with no warning and
\* no sleep, whatever the database's own state and even with no table.
C20_ReadinessFromTablesOnly ==
    [][(/\ spc = "loop"
        /\ loads' = loads + 1
        /\ dbInfo' # Nil
        /\ AllPublic(schemas'))
       => /\ spc' = "final"
          /\ done'
          /\ warns' = warns
          /\ sleeps' = sleeps
          /\ slept' = slept
      ]_vars

C20_Witness ==
    /\ spc = "final"
    /\ done
    /\ dbInfo # Nil
    /\ ~dbInfo.Available
    /\ DOMAIN dbInfo.Tables = {}
    /\ warns = 0
    /\ sleeps = 0

=============================================================================
